---------------------------- MODULE Spec2Model ----------------------------
(***************************************************************************)
(* Model of folder_view.py: generate_folder_plan (an os.walk traversal     *)
(* rendered as indented lines) and the script block that stores the plan   *)
(* in folder_plan.txt.                                                     *)
(*                                                                         *)
(* Strings are sequences of tokens.  A path is a sequence whose tokens are *)
(* the separator "/" and component names; a rendered line is a sequence of *)
(* indentation units, a marker, name tokens and a suffix; a multi-line     *)
(* string is the lines joined by the token "\n".                           *)
(* The filesystem is a tree of directories and plain files (no symbolic    *)
(* links), named by absolute component sequences.  It is built before the  *)
(* first call; afterwards only the script's own write changes it.  A       *)
(* behaviour is any sequence of direct calls generate_folder_plan(arg) and *)
(* runs of the script block over that filesystem.                          *)
(***************************************************************************)
EXTENDS Integers, Sequences, FiniteSets, TLC

\* ------------------------------------------------------------- bounds
MaxEntries == 2      \* entries created in the filesystem before the first scan

\* ------------------------------------------------------------ tokens
SEP == "/"            \* os.path.sep (POSIX)
NL == "\n"
UNIT == "    "        \* the four-space indentation unit
DIRMARK == "+ "
FILEMARK == "|-- "
ERRMARK == "Error processing directory: "
SENTINEL == <<"Error: Invalid start path.">>
OUTNAME == "folder_plan.txt"
HEADMARK == "Folder Structure Plan for: "
EQ == "="

DirNames == {"a", "b"}
FileNames == {"f", "g"}
\* the orders in which scandir may list the entries of a directory
ScanOrders == { <<"f", "a", OUTNAME, "g", "b">>, <<"b", "g", OUTNAME, "a", "f">> }

\* ------------------------------------------------- sequence helpers
RECURSIVE Count(_, _)
Count(s, t) ==   \* str.count(t) for a one-token t
    IF s = <<>> THEN 0
    ELSE (IF Head(s) = t THEN 1 ELSE 0) + Count(Tail(s), t)

RECURSIVE Repeat(_, _)
Repeat(t, n) ==  \* t * n : the empty string when n <= 0
    IF n <= 0 THEN <<>> ELSE <<t>> \o Repeat(t, n - 1)

RECURSIVE Reverse(_)
Reverse(s) == IF s = <<>> THEN <<>> ELSE Append(Reverse(Tail(s)), Head(s))

Last(s) == s[Len(s)]
Front(s) == SubSeq(s, 1, Len(s) - 1)

RECURSIVE Flatten(_)
Flatten(ss) == IF ss = <<>> THEN <<>> ELSE Head(ss) \o Flatten(Tail(ss))

\* ---------------------------------------------------- posixpath
RECURSIVE Split(_)
Split(p) ==      \* p.split("/") : a component is a token sequence, maybe empty
    IF p = <<>> THEN << <<>> >>
    ELSE IF Head(p) = SEP THEN << <<>> >> \o Split(Tail(p))
    ELSE LET r == Split(Tail(p)) IN << <<Head(p)>> \o Head(r) >> \o Tail(r)

RECURSIVE SepJoin(_)
SepJoin(comps) ==   \* "/".join(comps)
    IF comps = <<>> THEN <<>>
    ELSE IF Len(comps) = 1 THEN Head(comps)
    ELSE Head(comps) \o <<SEP>> \o SepJoin(Tail(comps))

StartsWith(p, n) == Len(p) >= n /\ \A i \in 1..n : p[i] = SEP

RECURSIVE NormComps(_, _, _)
NormComps(comps, acc, initial) ==   \* the loop of posixpath.normpath
    IF comps = <<>> THEN acc
    ELSE LET c == Head(comps) IN
         IF c = <<>> \/ c = <<".">> THEN NormComps(Tail(comps), acc, initial)
         ELSE IF c # <<"..">> \/ (initial = 0 /\ acc = <<>>)
                   \/ (acc # <<>> /\ Last(acc) = <<"..">>)
              THEN NormComps(Tail(comps), Append(acc, c), initial)
         ELSE IF acc # <<>> THEN NormComps(Tail(comps), Front(acc), initial)
         ELSE NormComps(Tail(comps), acc, initial)

normpath(p) ==
    IF p = <<>> THEN <<".">>
    ELSE LET initial == IF StartsWith(p, 2) /\ ~StartsWith(p, 3) THEN 2
                        ELSE IF StartsWith(p, 1) THEN 1 ELSE 0
             body == SepJoin(NormComps(Split(p), <<>>, initial))
             r == Repeat(SEP, initial) \o body
         IN IF r = <<>> THEN <<".">> ELSE r

basename(p) == Last(Split(p))     \* the part after the last separator

join(a, b) ==                     \* os.path.join(a, b) for a name b
    IF a = <<>> \/ Last(a) = SEP THEN a \o <<b>> ELSE a \o <<SEP, b>>

\* ------------------------------------------------------------- state
VARIABLES
    tree,            \* filesystem: absolute node |-> [kind, readable]
    cwd,             \* the process's working directory (a node)
    scanOrder,       \* the order scandir lists names in
    arg,             \* the argument of direct calls of generate_folder_plan
    pc,              \* "idle", "walk" (inside the for loop), "write" (script, after the call)
    mode,            \* "call": called directly; "script": called by the script block
    start_path, start_level, stack, plan_lines,
    dirpath, relative_level,     \* locals of the last loop iteration
    origin,          \* for each line of plan_lines: the node it renders
    failed,          \* nodes whose enumeration failed during the current walk
    iterations,      \* paths os.walk has taken from its stack in the current walk
    scanned,         \* a call of generate_folder_plan has been made
    last,            \* the last completed call: argument, tree scanned, outcome
    folder_plan,     \* the script's variable folder_plan
    scriptOK,        \* the last run of the script block wrote its file
    fileContent      \* content of cwd/folder_plan.txt as written by the script

vars == <<tree, cwd, scanOrder, arg, pc, mode, start_path, start_level, stack,
          plan_lines, dirpath, relative_level, origin, failed, iterations, scanned,
          last, folder_plan, scriptOK, fileContent>>

NoValue == <<"<unset>">>
Str(p) == [type |-> "str", val |-> p]
NoneArg == [type |-> "NoneType", val |-> <<>>]
Bytes(p) == [type |-> "bytes", val |-> p]

\* the arguments generate_folder_plan is called with
StartArgs ==
    { Str(<<SEP>>), Str(<<SEP, "a", SEP>>), Str(<<SEP, "a", SEP, "b">>),
      Str(<<"a">>), Str(<<>>),
      NoneArg, Bytes(<<SEP, "a">>) }

Dir(r) == [kind |-> "dir", readable |-> r]
File == [kind |-> "file", readable |-> TRUE]

IsDir(n) == n \in DOMAIN tree /\ tree[n].kind = "dir"

\* the node a path names, resolved against cwd ("//" names the root on Linux)
RECURSIVE Walk(_, _)
Walk(node, comps) ==
    IF comps = <<>> THEN node
    ELSE LET c == Head(comps) IN
         IF c = <<>> \/ c = <<".">> THEN Walk(node, Tail(comps))
         ELSE IF c = <<"..">> THEN Walk(IF node = <<>> THEN node ELSE Front(node), Tail(comps))
         ELSE Walk(node \o c, Tail(comps))

Resolve(p) == Walk(IF StartsWith(p, 1) THEN <<>> ELSE cwd, Split(p))

\* os.scandir(p) raises OSError: no such directory, not a directory, or not readable
ScandirFails(p) ==
    LET n == Resolve(p) IN IF IsDir(n) THEN ~tree[n].readable ELSE TRUE

\* the names scandir yields for node n in a tree t, in enumeration order
Listing(t, n) == SelectSeq(scanOrder, LAMBDA x : Append(n, x) \in DOMAIN t)

\* os.getcwd(): the absolute path of the working directory
AbsPath(n) == IF n = <<>> THEN <<SEP>> ELSE Flatten([i \in 1..Len(n) |-> <<SEP, n[i]>>])
getcwd == AbsPath(cwd)

AddEntry(t, n, e) == [x \in DOMAIN t \cup {n} |-> IF x = n THEN e ELSE t[x]]


RULE == 40            \* "=" * 40

RECURSIVE NLJoin(_)
NLJoin(lines) ==      \* "\n".join(lines)
    IF lines = <<>> THEN <<>>
    ELSE IF Len(lines) = 1 THEN Head(lines)
    ELSE Head(lines) \o <<NL>> \o NLJoin(Tail(lines))

NoCall == [by |-> "none", arg |-> Str(NoValue), tree |-> <<>>,
           out |-> [kind |-> "none", val |-> <<>>]]

TypeOK ==
    /\ pc \in {"idle", "walk", "write"}
    /\ mode \in {"call", "script"}
    /\ cwd \in DOMAIN tree /\ tree[cwd].kind = "dir"
    /\ \A n \in DOMAIN tree : n = <<>> \/ IsDir(Front(n))
    /\ scanned \in BOOLEAN /\ scriptOK \in BOOLEAN
    /\ Len(origin) = Len(plan_lines)

Init ==
    /\ cwd \in {<<>>, <<"a">>}
    /\ tree = [n \in {<<>>, cwd} |-> Dir(TRUE)]
    /\ scanOrder \in ScanOrders
    /\ arg \in StartArgs
    /\ pc = "idle"
    /\ mode = "call"
    /\ start_path = NoValue
    /\ start_level = 0
    /\ stack = <<>>
    /\ plan_lines = <<>>
    /\ dirpath = NoValue
    /\ relative_level = 0
    /\ origin = <<>>
    /\ failed = {}
    /\ iterations = 0
    /\ scanned = FALSE
    /\ last = NoCall
    /\ folder_plan = NoValue
    /\ scriptOK = FALSE
    /\ fileContent = NoValue

locals == <<start_path, start_level, stack, plan_lines, dirpath, relative_level,
            origin, failed, iterations>>
callVars == <<pc, mode, locals, scanned, last, folder_plan, scriptOK, fileContent>>

\* ----------------------------------------- the filesystem before the scan
CanCreate ==
    pc = "idle" /\ ~scanned /\ Cardinality(DOMAIN tree) - 1 - Len(cwd) < MaxEntries

Mkdir(parent, name, readable) ==   \* os.mkdir with or without the read permission
    /\ CanCreate
    /\ IsDir(parent)
    /\ Append(parent, name) \notin DOMAIN tree
    /\ tree' = AddEntry(tree, Append(parent, name), Dir(readable))
    /\ UNCHANGED <<cwd, scanOrder, arg, callVars>>

Touch(parent, name) ==
    /\ CanCreate
    /\ IsDir(parent)
    /\ Append(parent, name) \notin DOMAIN tree
    /\ tree' = AddEntry(tree, Append(parent, name), File)
    /\ UNCHANGED <<cwd, scanOrder, arg, callVars>>

\* ------------------------------------------------ generate_folder_plan
Raise(e) == [kind |-> "raise", val |-> <<e>>]
Returns(s) == [kind |-> "str", val |-> s]

\* line 17: os.path.normpath(start_path); os.fspath rejects what is no str, bytes or PathLike
NormResult(a) ==
    IF a.type \in {"str", "bytes"}
    THEN [exc |-> "none", type |-> a.type, val |-> normpath(a.val)]
    ELSE [exc |-> "TypeError", type |-> a.type, val |-> a.val]

\* line 24: start_path.count(os.path.sep); bytes.count(str) raises TypeError
CountExc(type) ==
    IF type = "str" THEN "none"
    ELSE IF type = "bytes" THEN "TypeError"
    ELSE "AttributeError"

Completed(m, a, out) == [by |-> m, arg |-> a, tree |-> tree, out |-> out]

\* mutant of NewPlan: the list outlives the call (a module-level or default-argument list)
KeepPlan == UNCHANGED <<plan_lines, origin, failed, iterations, dirpath, relative_level>>

\* line 14: a call starts with an empty list; no local of the loop is bound yet
NewPlan ==
    /\ plan_lines' = <<>> /\ origin' = <<>> /\ failed' = {} /\ iterations' = 0
    /\ dirpath' = NoValue /\ relative_level' = 0

\* lines 14-29, up to the first step of the walk
Enter(a, m) ==
    LET nr == NormResult(a) IN
    /\ scanned' = TRUE
    /\ NewPlan
    /\ IF nr.exc # "none"
       THEN /\ last' = Completed(m, a, Raise(nr.exc))
            /\ UNCHANGED <<pc, mode, start_path, start_level, stack>>
       ELSE IF CountExc(nr.type) = "AttributeError"
       THEN /\ last' = Completed(m, a, Returns(SENTINEL))
            /\ UNCHANGED <<pc, mode, start_path, start_level, stack>>
       ELSE IF CountExc(nr.type) # "none"
       THEN /\ last' = Completed(m, a, Raise(CountExc(nr.type)))
            /\ UNCHANGED <<pc, mode, start_path, start_level, stack>>
       ELSE /\ start_path' = nr.val
            /\ start_level' = Count(nr.val, SEP)
            /\ stack' = <<nr.val>>
            /\ pc' = "walk"
            /\ mode' = m
            /\ UNCHANGED last
    /\ UNCHANGED <<tree, cwd, scanOrder, arg, folder_plan, fileContent>>

Call ==          \* generate_folder_plan(arg), called directly
    /\ pc = "idle"
    /\ Enter(arg, "call")
    /\ UNCHANGED scriptOK

\* mutant of RelativeLevel: the root level itself is subtracted too
RelativeLevelLessOne(path, level) == Count(path, SEP) - level - 1

\* lines 32-33
RelativeLevel(path, level) == Count(path, SEP) - level

\* mutant of FileIndent: files are indented like their directory
FileIndentSame(level) == Repeat(UNIT, level)

\* line 49
FileIndent(level) == Repeat(UNIT, level + 1)

\* mutant of DirLine: indentation by the absolute separator count of the path
DirLineAbsolute(path, level) ==
    Repeat(UNIT, Count(path, SEP)) \o <<DIRMARK>> \o basename(path) \o <<SEP>>

\* lines 39-46
DirLine(path, level) ==
    IF path = start_path
    THEN <<DIRMARK>> \o basename(path) \o <<SEP>>
    ELSE Repeat(UNIT, level) \o <<DIRMARK>> \o basename(path) \o <<SEP>>

\* mutant of Block: the files are listed before the line of their directory
BlockFilesFirst(path, filenames) ==
    LET level == Count(path, SEP) - start_level IN
    [i \in 1..Len(filenames) |-> Repeat(UNIT, level + 1) \o <<FILEMARK, filenames[i]>>]
    \o << Repeat(UNIT, level) \o <<DIRMARK>> \o basename(path) \o <<SEP>> >>

\* lines 36-51: the lines appended in one iteration
Block(path, filenames) ==
    LET level == RelativeLevel(path, start_level) IN
    << DirLine(path, level) >>
    \o [i \in 1..Len(filenames) |-> FileIndent(level) \o <<FILEMARK, filenames[i]>>]

\* nothing in lines 32-51 raises on str operands
BodyRaises(path, filenames) == FALSE

\* line 54
ErrorLine(level, msg) == Repeat(UNIT, level) \o <<ERRMARK, msg>>

\* mutant of Pushed: one subdirectory is never descended into
PushedAllButOne(top, dirs) == [i \in 1..(Len(dirs) - 1) |-> join(top, Reverse(dirs)[i])]

\* the directories os.walk pushes after the yield: reversed(dirs), joined to top
Pushed(top, dirs) == [i \in 1..Len(dirs) |-> join(top, Reverse(dirs)[i])]

\* os.walk: scandir(top) raises OSError and onerror is None: top is skipped
WalkSkip ==
    /\ pc = "walk" /\ stack # <<>>
    /\ ScandirFails(Last(stack))
    /\ stack' = Front(stack)
    /\ failed' = failed \cup {Resolve(Last(stack))}
    /\ iterations' = iterations + 1
    /\ UNCHANGED <<tree, cwd, scanOrder, arg, pc, mode, start_path, start_level,
                   plan_lines, dirpath, relative_level, origin, scanned, last,
                   folder_plan, scriptOK, fileContent>>

\* os.walk yields (top, dirs, nondirs) and the loop body runs (lines 29-54)
WalkVisit ==
    /\ pc = "walk" /\ stack # <<>>
    /\ ~ScandirFails(Last(stack))
    /\ LET top == Last(stack)
           n == Resolve(top)
           names == Listing(tree, n)
           dirnames == SelectSeq(names, LAMBDA x : tree[Append(n, x)].kind = "dir")
           filenames == SelectSeq(names, LAMBDA x : tree[Append(n, x)].kind # "dir")
           level == RelativeLevel(top, start_level)
       IN /\ dirpath' = top
          /\ relative_level' = level
          /\ IF BodyRaises(top, filenames)
             THEN /\ plan_lines' = Append(plan_lines, ErrorLine(level, "exception"))
                  /\ origin' = Append(origin, [node |-> n, kind |-> "error"])
             ELSE /\ plan_lines' = plan_lines \o Block(top, filenames)
                  /\ origin' = origin \o << [node |-> n, kind |-> "dir"] >>
                        \o [i \in 1..Len(filenames) |->
                              [node |-> Append(n, filenames[i]), kind |-> "file"]]
          /\ stack' = Front(stack) \o Pushed(top, dirnames)
          /\ iterations' = iterations + 1
    /\ UNCHANGED <<tree, cwd, scanOrder, arg, pc, mode, start_path, start_level,
                   failed, scanned, last, folder_plan, scriptOK, fileContent>>

CallArg == IF mode = "script" THEN Str(getcwd) ELSE arg

\* line 56, and line 74 when the script made the call.
\* A direct caller is back at top level; the script goes on to write its file.
Return ==
    /\ pc = "walk" /\ stack = <<>>
    /\ last' = Completed(mode, CallArg, Returns(NLJoin(plan_lines)))
    /\ IF mode = "script"
       THEN pc' = "write" /\ folder_plan' = NLJoin(plan_lines)
       ELSE pc' = "idle" /\ UNCHANGED folder_plan
    /\ UNCHANGED <<tree, cwd, scanOrder, arg, mode, locals, scanned, scriptOK,
                   fileContent>>

\* ------------------------------------------------------- script block
Main ==          \* lines 66-74: generate_folder_plan(os.getcwd())
    /\ pc = "idle"
    /\ Enter(Str(getcwd), "script")
    /\ scriptOK' = FALSE

\* mutant of Written: no newline ends the rule of "=" characters
WrittenNoBreak(current_directory, plan) ==
    <<HEADMARK>> \o current_directory \o <<NL>> \o Repeat(EQ, RULE) \o plan

\* lines 77-81
Written(current_directory, plan) ==
    <<HEADMARK>> \o current_directory \o <<NL>> \o Repeat(EQ, RULE) \o <<NL>> \o plan

MainWrite ==     \* lines 77-83: open(..., "w") creates or truncates the file
    /\ pc = "write"
    /\ fileContent' = Written(getcwd, folder_plan)
    /\ tree' = AddEntry(tree, Append(cwd, OUTNAME), File)
    /\ scriptOK' = TRUE
    /\ pc' = "idle" /\ mode' = "call" /\ folder_plan' = NoValue
    /\ UNCHANGED <<cwd, scanOrder, arg, locals, scanned, last>>

MainWriteFails ==   \* open raises OSError; lines 90-91 print it and the script ends
    /\ pc = "write"
    /\ pc' = "idle" /\ mode' = "call" /\ folder_plan' = NoValue
    /\ UNCHANGED <<tree, cwd, scanOrder, arg, locals, scanned, last, scriptOK,
                   fileContent>>

Next ==
    \/ \E p \in DOMAIN tree, x \in DirNames, r \in BOOLEAN : Mkdir(p, x, r)
    \/ \E p \in DOMAIN tree, x \in FileNames : Touch(p, x)
    \/ Call
    \/ WalkSkip
    \/ WalkVisit
    \/ Return
    \/ Main
    \/ MainWrite
    \/ MainWriteFails

Spec == Init /\ [][Next]_vars

\* ------------------------------------------------ reading the output
RECURSIVE IndentOf(_)
IndentOf(line) ==     \* the number of leading indentation units of a line
    IF line # <<>> /\ Head(line) = UNIT THEN 1 + IndentOf(Tail(line)) ELSE 0

Rest(line) == SubSeq(line, IndentOf(line) + 1, Len(line))

IsPrefix(a, b) == Len(a) <= Len(b) /\ SubSeq(b, 1, Len(a)) = a

Parent(n) == IF n = <<>> THEN <<>> ELSE Front(n)

RootNode == Resolve(start_path)       \* the directory the walk starts at

AtReturn == pc = "walk" /\ stack = <<>>     \* the loop is over: line 56 is next

\* the files of directory D, in enumeration order
FilesOf(D) == SelectSeq(Listing(tree, D), LAMBDA x : tree[Append(D, x)].kind # "dir")

\* the nodes at or below D
Below(D) == {n \in DOMAIN tree : IsPrefix(D, n)}

\* C1: for every visited directory D, the lines of D's files follow D's line
\* contiguously, in enumeration order, before the line of any subdirectory of D,
\* and D's line precedes every line of a directory or file below D.
C1_PreOrder ==
    pc = "walk" =>
      \A i \in DOMAIN origin : origin[i].kind = "dir" =>
        LET D == origin[i].node
            fs == FilesOf(D)
            k == Len(fs)
        IN /\ Rest(plan_lines[i])[1] = DIRMARK
           /\ i + k <= Len(origin)
           /\ \A m \in 1..k :
                /\ origin[i + m] = [node |-> Append(D, fs[m]), kind |-> "file"]
                /\ Rest(plan_lines[i + m]) = <<FILEMARK, fs[m]>>
           /\ \A j \in DOMAIN origin :
                /\ (j # i /\ IsPrefix(D, origin[j].node)) => j > i
                /\ (origin[j].node # <<>> /\ Parent(origin[j].node) = D) =>
                      IF origin[j].kind = "file" THEN j \in (i + 1)..(i + k)
                      ELSE j > i + k

C1_Witness ==
    /\ AtReturn
    /\ \E i, j \in DOMAIN origin :
         /\ origin[i].kind = "dir" /\ Len(FilesOf(origin[i].node)) >= 2
         /\ origin[j].kind = "dir" /\ origin[j].node # <<>>
         /\ Parent(origin[j].node) = origin[i].node

\* C2: every directory line is indented by as many units as the directory lies
\* levels below the root of the walk (root 0, each child one more than its parent).
C2_DirIndentIsDepth ==
    pc = "walk" =>
      \A i \in DOMAIN origin : origin[i].kind = "dir" =>
        IndentOf(plan_lines[i]) = Len(origin[i].node) - Len(RootNode)

\* the directories the walk can reach: every directory from the root down to
\* them can be listed
Reachable(d) ==
    /\ IsPrefix(RootNode, d)
    /\ \A k \in Len(RootNode)..Len(d) :
         IsDir(SubSeq(d, 1, k)) /\ tree[SubSeq(d, 1, k)].readable

\* C3: every directory below the root whose enumeration failed during the walk
\* has exactly one line '<indentation>Error processing directory: <message>' in
\* the output, and the directories that can still be listed have their lines.
C3_ErrorLinePerFailure ==
    AtReturn =>
      /\ \A n \in failed : (IsDir(n) /\ n # RootNode) =>
           Cardinality({i \in DOMAIN origin :
                          /\ origin[i] = [node |-> n, kind |-> "error"]
                          /\ Rest(plan_lines[i])[1] = ERRMARK}) = 1
      /\ \A d \in DOMAIN tree : Reachable(d) =>
           \E i \in DOMAIN origin : origin[i] = [node |-> d, kind |-> "dir"]

\* C4: a call with the empty string or with a value that is no string returns
\* the sentinel 'Error: Invalid start path.'; it neither raises nor renders a tree.
InvalidArg(a) == a.type # "str" \/ a.val = <<>>

C4_SentinelOnInvalid ==
    (last.by # "none" /\ InvalidArg(last.arg)) => last.out = Returns(SENTINEL)

\* C5: whatever the depth of start_path in the filesystem, the first line of the
\* output is the root directory's line, of the form '+ <name>/' with no
\* indentation, and nothing precedes it.
C5_RootLineFirst ==
    (pc = "walk" /\ plan_lines # <<>>) =>
      LET line == plan_lines[1] IN
      /\ origin[1] = [node |-> RootNode, kind |-> "dir"]
      /\ IndentOf(line) = 0
      /\ Len(line) \in {2, 3}
      /\ Head(line) = DIRMARK /\ Last(line) = SEP
      /\ Len(line) = 3 => line[2] \notin {UNIT, DIRMARK, FILEMARK, ERRMARK, NL}

C5_Witness ==
    AtReturn /\ Len(RootNode) >= 2 /\ Len(plan_lines) >= 2

\* C6: every file line is indented one unit more than the line of the directory
\* that owns the file, and reads '<indent>|-- <filename>'.
C6_FileIndent ==
    pc = "walk" =>
      \A i \in DOMAIN origin : origin[i].kind = "file" =>
        /\ Rest(plan_lines[i]) = <<FILEMARK, Last(origin[i].node)>>
        /\ \E o \in DOMAIN origin :
             /\ origin[o] = [node |-> Parent(origin[i].node), kind |-> "dir"]
             /\ IndentOf(plan_lines[i]) = IndentOf(plan_lines[o]) + 1

C6_Witness ==
    /\ AtReturn
    /\ \E i \in DOMAIN origin :
         /\ origin[i].kind = "file"
         /\ Parent(origin[i].node) # RootNode
         /\ IndentOf(plan_lines[i]) >= 2

\* C9: in every iteration of the walk relative_level, the separator count of the
\* visited path minus that of the normalized root path, is not negative, and it
\* is 0 in the iteration that visits the root.
C9_RelativeLevel ==
    (pc = "walk" /\ dirpath # NoValue) =>
      /\ relative_level = Count(dirpath, SEP) - Count(start_path, SEP)
      /\ relative_level >= 0
      /\ (Resolve(dirpath) = RootNode) => relative_level = 0

C9_Witness ==
    pc = "walk" /\ dirpath # NoValue /\ Resolve(dirpath) # RootNode /\ relative_level >= 1

\* ------------------------------------------------ reading the file
RECURSIVE FirstLine(_)
FirstLine(s) ==       \* the text before the first newline
    IF s = <<>> \/ Head(s) = NL THEN <<>> ELSE <<Head(s)>> \o FirstLine(Tail(s))

RECURSIVE DropLine(_)
DropLine(s) ==        \* the text after the first newline
    IF s = <<>> THEN <<>> ELSE IF Head(s) = NL THEN Tail(s) ELSE DropLine(Tail(s))

HeaderOK(content) ==
    /\ FirstLine(content) = <<HEADMARK>> \o getcwd
    /\ FirstLine(DropLine(content)) = Repeat(EQ, 40)
    /\ Count(content, NL) >= 2

BodyOf(content) == DropLine(DropLine(content))

\* C7 as stated: after a successful run of the script, the text of folder_plan.txt
\* after its two header lines is the string generate_folder_plan returns for the
\* same root, the working directory as it is once the script has run.
C7_BodyIsPlanOfRoot ==
    ( /\ pc = "idle" /\ scriptOK
      /\ last.by # "none" /\ last.out.kind = "str"
      /\ last.arg = Str(getcwd) /\ last.tree = tree )
    => (HeaderOK(fileContent) /\ BodyOf(fileContent) = last.out.val)

\* C7 amended: after a successful run of the script, the text of folder_plan.txt
\* after its two header lines is the string generate_folder_plan returned to the
\* script in that run, the rendering of the tree scanned before the file was written.
C7_BodyIsReturnedPlan ==
    (pc = "idle" /\ scriptOK /\ last.by = "script")
    => (HeaderOK(fileContent) /\ BodyOf(fileContent) = last.out.val)

C7_Witness ==
    /\ pc = "idle" /\ scriptOK /\ last.by = "script"
    /\ Count(last.out.val, NL) >= 2
    /\ Append(cwd, OUTNAME) \notin DOMAIN last.tree

\* C8: a call whose argument and scanned tree are those of the previous completed
\* call returns the string that call returned, and no step of a call changes the tree.
SameAsLast ==
    /\ last.by # "none" /\ last.out.kind = "str"
    /\ last.arg = CallArg /\ last.tree = tree

C8_Idempotent ==
    /\ [](AtReturn /\ SameAsLast => NLJoin(plan_lines) = last.out.val)
    /\ [][pc = "walk" => tree' = tree]_vars

C8_Witness ==
    AtReturn /\ SameAsLast /\ Len(plan_lines) >= 3

=============================================================================
